---- MODULE Spec2Model ----
(***************************************************************************)
(* Model of py101ru.py: the 101.ru playlist builder.                       *)
(*                                                                         *)
(* main() fetches the genre listing, lets the user pick a genre, fetches   *)
(* the genre's station page, asks the metadata API about every station,    *)
(* and then make_m3u() probes each channel's stream candidates in order    *)
(* and writes the playlist file.  Every network call goes through          *)
(* get_page(); what the network answers is the model's nondeterminism.     *)
(***************************************************************************)
EXTENDS Integers, Sequences, FiniteSets, TLC

(* ------------------------------ bounds -------------------------------- *)
\* stations a genre page can link to (station ids 1..MaxStations)
MaxStations == 2
\* items in one metadata answer's "result" list
MaxItems == 1
\* channel records handed to make_m3u directly
MaxChannels == 2
\* stream candidates of one such channel record
MaxStreams == 3
\* anchors on the genre-listing page
MaxAnchors == 2
\* anchors on a genre's station page (duplicates allowed)
MaxLinks == 2

(* ------------------------- program constants -------------------------- *)
\* the status every caller compares against (`code != 200`, `code == 200`)
HTTP_OK == 200
\* a get_page whose code starts out as the success status
DEFAULT_CODE_Success == HTTP_OK
\* get_page: `code = 404`, the value code keeps when urlopen never answered
DEFAULT_CODE == 404
\* make_m3u: `code = 404`, the code of a candidate that is not probed
SKIPPED_CODE == 404

(* --------------------------- the environment -------------------------- *)
\* href values an anchor of the genre listing can carry: two decorations
\* (empty, "#") and one genre
GenreHrefs == {"", "#", "/radio-top/rock"}

\* raw urlStream values of the API: an http URL, an http URL with a query
\* string, and a URL that is not http(s).  A URL is its sequence of tokens.
StreamUrls == {<<"http", "a">>, <<"http", "b", "?", "t">>, <<"mms", "c">>}

\* status codes urlopen hands back as a response (2xx) ...
ResponseCodes == {200, 204}
\* ... and as urllib.error.HTTPError
ErrorCodes == {404, 500}

Injective(f) == \A a, b \in DOMAIN f : f[a] = f[b] => a = b

\* sequences without repetition over S, of length 0..n
SeqsUpTo(S, n) == UNION {{f \in [1..k -> S] : Injective(f)} : k \in 0..n}

\* sequences (repetition allowed) over S, of length 0..n
ListsUpTo(S, n) == UNION {[1..k -> S] : k \in 0..n}

NoBody == [k |-> "none"]

\* the genre-listing page: the anchors `ul.channel-groups li a[href]` finds
GenrePages == {[k |-> "html", anchors |-> a] : a \in SeqsUpTo(GenreHrefs, MaxAnchors)}

\* a genre's page: the anchors `div.grid li a[href]` finds, by station id
StationPages == {[k |-> "html", anchors |-> a] : a \in ListsUpTo(1..MaxStations, MaxLinks)}

\* the metadata API's answer for station n: text that is not JSON, JSON that
\* is not an object, or an object with an optional status and a result list
ApiItems(n, urls) == [j \in DOMAIN urls |-> [titleChannel |-> n, urlStream |-> urls[j]]]

ApiBodies(n) ==
    {[k |-> "text"], [k |-> "jsonvalue"]}
    \cup {[k |-> "jsonobject", hasStatus |-> h, status |-> s, result |-> ApiItems(n, u)] :
            h \in BOOLEAN, s \in {0, 1}, u \in SeqsUpTo(StreamUrls, MaxItems)}

\* What one urlopen(...) attempt can do:
\*   response   - an HTTP response with a 2xx status; reading the body can
\*                succeed, time out, or yield bytes that are not UTF-8
\*   HTTPError  - an HTTP response with an error status
\*   URLError   - DNS, TLS, connection refused, timeout while connecting
\*   ValueError - the URL is malformed
\*   Timeout    - the server accepted the request and the timeout expired
\*                while waiting for the status line (socket.timeout from
\*                getresponse(), which urllib does not wrap in URLError)
NetOutcome(kind, status, read, body) ==
    [kind |-> kind, status |-> status, read |-> read, body |-> body]

NetOutcomes(bodies, reads) ==
    {NetOutcome("response", c, r, b) : c \in ResponseCodes, r \in reads, b \in bodies}
    \cup {NetOutcome("HTTPError", c, "none", NoBody) : c \in ErrorCodes}
    \cup {NetOutcome(kd, 0, "none", NoBody) : kd \in {"URLError", "ValueError", "Timeout"}}

BodyReads == {"ok", "timeout", "undecodable"}

(* ------------------------------ get_page ------------------------------ *)
Returned(code, text, body) ==
    [raised |-> FALSE, exc |-> "none", code |-> code, data |-> text, body |-> body]

Raised(exc) ==
    [raised |-> TRUE, exc |-> exc, code |-> DEFAULT_CODE, data |-> "None", body |-> NoBody]

\* get_page(url, data_enable): the (code, data) it returns for what the
\* network did, or the exception that leaves it.  data is the class of the
\* text ("body", "None", or the prefix of the error description); body is the
\* text itself when data = "body".
get_page(o, data_enable) ==
    CASE o.kind = "response" ->
            IF ~data_enable THEN Returned(o.status, "None", NoBody)
            ELSE IF o.read = "timeout" THEN Raised("TimeoutError")
            ELSE IF o.read = "undecodable" THEN Returned(o.status, "Value Error", NoBody)
            ELSE Returned(o.status, "body", o.body)
      [] o.kind = "HTTPError" -> Returned(o.status, "HTTP Error", NoBody)
      [] o.kind = "URLError" -> Returned(DEFAULT_CODE, "URL Error", NoBody)
      [] o.kind = "ValueError" -> Returned(DEFAULT_CODE, "Value Error", NoBody)
      [] OTHER -> Raised("TimeoutError")

(* ------------------------------ messages ------------------------------ *)
\* one line printed to the console: what it says and, for make_m3u's error
\* line, the channel title it carries (0 otherwise)
Msg(text) == [msg |-> text, title |-> 0]
ChannelError(title) == [msg |-> "ERROR", title |-> title]
GROUPS_ERROR == Msg("ERROR: groups")

(* ---------------------- get_channel_genres_list ----------------------- *)
None == [none |-> TRUE, list |-> <<>>]
List(l) == [none |-> FALSE, list |-> l]

\* `if not genres`: None and the empty list are both falsy
Falsy(v) == v.none \/ v.list = <<>>

FunctionResult(raised, exc, value, printed) ==
    [raised |-> raised, exc |-> exc, value |-> value, printed |-> printed]

\* the anchors BeautifulSoup's select() finds in what get_page returned: an
\* error description parsed as HTML holds none
Anchors(r) == IF r.data = "body" THEN r.body.anchors ELSE <<>>

\* `if not tag or tag == '#': continue`
Usable(tag) == tag # "" /\ tag # "#"

GenreEntry(tag) == [title |-> tag, url |-> <<"https://101.ru", tag>>]

RECURSIVE GenreEntries(_)
GenreEntries(groups) ==
    IF groups = <<>> THEN <<>>
    ELSE LET rest == GenreEntries(Tail(groups))
         IN IF Usable(Head(groups)) THEN <<GenreEntry(Head(groups))>> \o rest ELSE rest

get_channel_genres_list(o) ==
    LET r == get_page(o, TRUE)
        groups == Anchors(r)
    IN IF r.raised THEN FunctionResult(TRUE, r.exc, None, <<>>)
       ELSE IF r.code # HTTP_OK THEN FunctionResult(FALSE, "none", None, <<Msg(r.data)>>)
       ELSE IF groups = <<>> THEN FunctionResult(FALSE, "none", None, <<GROUPS_ERROR>>)
       ELSE FunctionResult(FALSE, "none", List(GenreEntries(groups)), <<>>)

(* -------------------------- get_stations_url -------------------------- *)
\* f"https://101.ru{href}" of the link to station n, as url.split('/') sees it
StationUrl(n) == <<"https:", "", "101.ru", "radio", "channel", n>>

\* url.split('/')[-1]
LastSegment(url) == url[Len(url)]

NoSet == [none |-> TRUE, set |-> {}]

get_stations_url(o) ==
    LET r == get_page(o, TRUE)
        divs == Anchors(r)
    IN IF r.raised THEN FunctionResult(TRUE, r.exc, NoSet, <<>>)
       ELSE IF r.code # HTTP_OK THEN FunctionResult(FALSE, "none", NoSet, <<Msg(r.data)>>)
       ELSE IF divs = <<>> THEN FunctionResult(FALSE, "none", NoSet, <<GROUPS_ERROR>>)
       ELSE FunctionResult(FALSE, "none",
                           [none |-> FALSE, set |-> {StationUrl(divs[j]) : j \in DOMAIN divs}],
                           <<>>)

(* -------------------------- get_channel_info -------------------------- *)
\* what get_channel_info returns: a dict, another JSON value, or (on a status
\* other than 200) get_page's text
Info(t, hasStatus, status, result) ==
    [t |-> t, hasStatus |-> hasStatus, status |-> status, result |-> result]

StrInfo == Info("str", FALSE, 0, <<>>)

\* json.loads(data)
json_loads(r) ==
    IF r.data = "body" /\ r.body.k = "jsonobject"
    THEN FunctionResult(FALSE, "none",
                        Info("dict", r.body.hasStatus, r.body.status, r.body.result), <<>>)
    ELSE IF r.data = "body" /\ r.body.k = "jsonvalue"
    THEN FunctionResult(FALSE, "none", Info("value", FALSE, 0, <<>>), <<>>)
    ELSE FunctionResult(TRUE, "JSONDecodeError", StrInfo, <<>>)

get_channel_info(o) ==
    LET r == get_page(o, TRUE)
    IN IF r.raised THEN FunctionResult(TRUE, r.exc, StrInfo, <<>>)
       ELSE IF r.code = HTTP_OK THEN json_loads(r)
       ELSE FunctionResult(FALSE, "none", StrInfo, <<>>)

(* ------------------------- get_channel_streams ------------------------ *)
\* a check that only asks whether a status is there
Live_AnyStatus(info) == info.hasStatus

\* `info.get('status') is not None and info.get('status') == 1`
Live(info) == info.hasStatus /\ info.status = 1

\* x['urlStream'].split('?')[0]
RECURSIVE StripQuery(_)
StripQuery(url) ==
    IF url = <<>> \/ Head(url) = "?" THEN <<>>
    ELSE <<Head(url)>> \o StripQuery(Tail(url))

ChannelRecord(info) ==
    [title |-> info.result[1].titleChannel,
     stream |-> [j \in DOMAIN info.result |-> StripQuery(info.result[j].urlStream)]]

\* one pass of `for ch in chnls` over what get_channel_info returned: the
\* records appended to result, or the exception the pass ends in
AppendChannel(info) ==
    IF info.t # "dict" THEN FunctionResult(TRUE, "AttributeError", <<>>, <<>>)
    ELSE IF ~Live(info) THEN FunctionResult(FALSE, "none", <<>>, <<>>)
    ELSE IF info.result = <<>> THEN FunctionResult(TRUE, "IndexError", <<>>, <<>>)
    ELSE FunctionResult(FALSE, "none", <<ChannelRecord(info)>>, <<>>)

(* ------------------------------ make_m3u ------------------------------ *)
\* s.startswith('http')
StartsWithHttp(s) == Len(s) > 0 /\ s[1] = "http"

HeaderLine == [tag |-> "#EXTM3U", idx |-> 0, title |-> 0, url |-> <<>>]
ExtInfLine(idx, title) == [tag |-> "#EXTINF", idx |-> idx, title |-> title, url |-> <<>>]
UrlLine(url) == [tag |-> "url", idx |-> 0, title |-> 0, url |-> url]

\* m3u.write(f'#EXTINF: {i}, {title}\n{active_stream}\n')
EntryLines(idx, title, url) == <<ExtInfLine(idx, title), UrlLine(url)>>

(* ------------------------------- state -------------------------------- *)
VARIABLES
    pc,             \* where main() is: "genres", "input", "stations", "resolve",
                    \* "m3u", "done" (make_m3u returned), "returned" (main
                    \* returned at `if not genres`), "crashed" (an exception
                    \* left main)
    exc,            \* the exception that ended the run ("none" while it runs)
    at,             \* the value of pc when that exception was raised
    genres,         \* main: genres
    itm,            \* main: itm, the chosen GenreEntry
    chnls,          \* get_channel_streams: the station URLs not yet iterated
    result,         \* get_channel_streams: result, then make_m3u's channels
    file,           \* the playlist file: "none", "open" or "closed"
    m3u,            \* the lines written to the playlist file
    i,              \* make_m3u: i
    ch,             \* make_m3u: position of val in channels (1-based)
    si,             \* make_m3u: position in val['stream'] of the next s
    active_stream,  \* make_m3u: active_stream (<<>> is None)
    code,           \* the code of the last (code, data) get_page returned
    data,           \* the class of its data
    out,            \* the lines printed to the console
    net,            \* history: what the network did on the last get_page call
    probes,         \* history: the probes issued for val so far: the candidate's
                    \* position and the code get_page returned (0: it raised)
    probed,         \* history: titles of the channels a probe was issued for
    hits,           \* history: positions of the channels a probe of which returned 200
    inactive        \* history: ids of the stations whose metadata decoded to an
                    \* object whose status is absent or not 1

vars == <<pc, exc, at, genres, itm, chnls, result, file, m3u, i, ch, si,
          active_stream, code, data, out, net, probes, probed, hits, inactive>>

NoGenre == [title |-> "", url |-> <<>>]

\* the last network exchange: the endpoint asked, and what urlopen did
Net(ep, o) == [ep |-> ep, kind |-> o.kind, status |-> o.status, read |-> o.read, bk |-> o.body.k]

Init ==
    /\ pc = "genres"
    /\ exc = "none"
    /\ at = "none"
    /\ genres = None
    /\ itm = NoGenre
    /\ chnls = {}
    /\ result = <<>>
    /\ file = "none"
    /\ m3u = <<>>
    /\ i = 0
    /\ ch = 0
    /\ si = 0
    /\ active_stream = <<>>
    /\ code = 0
    /\ data = "None"
    /\ out = <<>>
    /\ net = [ep |-> "none", kind |-> "none", status |-> 0, read |-> "none", bk |-> "none"]
    /\ probes = <<>>
    /\ probed = {}
    /\ hits = {}
    /\ inactive = {}

\* an exception nobody catches: main() ends with a traceback
Crash(e) ==
    /\ pc' = "crashed"
    /\ exc' = e
    /\ at' = pc

NoCrash(next) ==
    /\ pc' = next
    /\ UNCHANGED <<exc, at>>

\* the (code, data) locals after get_page returned r (kept when it raised)
GotPage(r) ==
    IF r.raised THEN UNCHANGED <<code, data>>
    ELSE code' = r.code /\ data' = r.data

(* -------------------------------- main --------------------------------- *)
\* main, lines 178-180: genres = get_channel_genres_list(); if not genres: return
GetGenres ==
    /\ pc = "genres"
    /\ \E o \in NetOutcomes(GenrePages, BodyReads) :
         LET f == get_channel_genres_list(o)
         IN /\ net' = Net("genres", o)
            /\ GotPage(get_page(o, TRUE))
            /\ out' = out \o f.printed
            /\ IF f.raised THEN Crash(f.exc) /\ UNCHANGED genres
               ELSE /\ genres' = f.value
                    /\ NoCrash(IF Falsy(f.value) THEN "returned" ELSE "input")
    /\ UNCHANGED <<itm, chnls, result, file, m3u, i, ch, si, active_stream,
                   probes, probed, hits, inactive>>

\* genres[int(num)]: the positions Python accepts for a list of length n
ValidIndex(n) == (0 - n)..(n - 1)
Item(list, n) == list[IF n < 0 THEN Len(list) + n + 1 ELSE n + 1]

\* main, lines 181-187: num = input(...); itm = genres[int(num)]
ChooseGenre ==
    /\ pc = "input"
    /\ \/ \E n \in ValidIndex(Len(genres.list)) :
            /\ itm' = Item(genres.list, n)
            /\ NoCrash("stations")
       \/ Crash("IndexError") /\ UNCHANGED itm
       \/ Crash("ValueError") /\ UNCHANGED itm
    /\ UNCHANGED <<genres, chnls, result, file, m3u, i, ch, si, active_stream,
                   code, data, out, net, probes, probed, hits, inactive>>

(* ------------------------- get_channel_streams ------------------------- *)
\* lines 135-137: result = []; chnls = get_stations_url(url); `for ch in chnls`
\* raises TypeError when get_stations_url returned None
GetStations ==
    /\ pc = "stations"
    /\ \E o \in NetOutcomes(StationPages, BodyReads) :
         LET f == get_stations_url(o)
         IN /\ net' = Net("stations", o)
            /\ GotPage(get_page(o, TRUE))
            /\ out' = out \o f.printed
            /\ IF f.raised THEN Crash(f.exc) /\ UNCHANGED chnls
               ELSE IF f.value.none THEN Crash("TypeError") /\ UNCHANGED chnls
               ELSE chnls' = f.value.set /\ NoCrash("resolve")
    /\ result' = <<>>
    /\ UNCHANGED <<genres, itm, file, m3u, i, ch, si, active_stream,
                   probes, probed, hits, inactive>>

\* lines 137-144, one pass of `for ch in chnls` (a set: any order)
ResolveStation ==
    /\ pc = "resolve"
    /\ \E url \in chnls :
         LET ch_num == LastSegment(url)
             number == LastSegment(<<ch_num>>)
         IN \E o \in NetOutcomes(ApiBodies(number), BodyReads) :
              LET f == get_channel_info(o)
                  a == AppendChannel(f.value)
              IN /\ net' = Net("api", o)
                 /\ GotPage(get_page(o, TRUE))
                 /\ chnls' = chnls \ {url}
                 /\ inactive' = inactive \cup
                        (IF o.kind = "response" /\ o.status = HTTP_OK /\ o.read = "ok"
                            /\ o.body.k = "jsonobject"
                            /\ ~(o.body.hasStatus /\ o.body.status = 1)
                         THEN {number} ELSE {})
                 /\ IF f.raised THEN Crash(f.exc) /\ UNCHANGED result
                    ELSE IF a.raised THEN Crash(a.exc) /\ UNCHANGED result
                    ELSE result' = result \o a.value /\ NoCrash("resolve")
    /\ UNCHANGED <<genres, itm, file, m3u, i, ch, si, active_stream, out,
                   probes, probed, hits>>

(* ------------------------------- make_m3u ------------------------------ *)
\* a make_m3u that starts while stations are still waiting for their lookup
ChannelsReady_Eager == pc = "resolve"

\* main line 188 calls make_m3u once get_channel_streams has returned
ChannelsReady == pc = "resolve" /\ chnls = {}

\* lines 157-161: open the file, write the header, i = 0, enter the loop
OpenM3u ==
    /\ ChannelsReady
    /\ file' = "open"
    /\ m3u' = <<HeaderLine>>
    /\ i' = 0
    /\ ch' = 1
    /\ si' = 1
    /\ active_stream' = <<>>
    /\ NoCrash("m3u")
    /\ UNCHANGED <<genres, itm, chnls, result, code, data, out, net,
                   probes, probed, hits, inactive>>

\* an inner loop without the `break`
InnerLoopDone_NoBreak == si > Len(result[ch].stream)

\* `for s in val['stream']` is over: by `break`, or the list is exhausted
InnerLoopDone == active_stream # <<>> \/ si > Len(result[ch].stream)

\* lines 162-168, one pass of `for s in val['stream']`
ProbeStream ==
    /\ pc = "m3u"
    /\ ch <= Len(result)
    /\ ~InnerLoopDone
    /\ LET s == result[ch].stream[si]
       IN IF StartsWithHttp(s)
          THEN \E o \in NetOutcomes({NoBody}, {"none"}) :
                 LET r == get_page(o, FALSE)
                 IN /\ net' = Net("stream", o)
                    /\ GotPage(r)
                    /\ probed' = probed \cup {result[ch].title}
                    /\ IF r.raised
                       THEN /\ Crash(r.exc)
                            /\ probes' = Append(probes, [pos |-> si, code |-> 0])
                            /\ UNCHANGED <<active_stream, hits>>
                       ELSE /\ NoCrash("m3u")
                            /\ probes' = Append(probes, [pos |-> si, code |-> r.code])
                            /\ active_stream' = IF r.code = HTTP_OK THEN s ELSE active_stream
                            /\ hits' = IF r.code = HTTP_OK THEN hits \cup {ch} ELSE hits
          ELSE /\ code' = SKIPPED_CODE
               /\ NoCrash("m3u")
               /\ UNCHANGED <<data, net, probed, probes, active_stream, hits>>
    /\ si' = si + 1
    /\ UNCHANGED <<genres, itm, chnls, result, file, m3u, i, ch, out, inactive>>

\* a make_m3u that counts the channels it drops (`i += 1` ahead of the test)
FinishChannel_CountsDropped ==
    /\ pc = "m3u"
    /\ ch <= Len(result)
    /\ InnerLoopDone
    /\ IF active_stream = <<>>
       THEN /\ out' = Append(out, ChannelError(result[ch].title))
            /\ UNCHANGED m3u
       ELSE /\ m3u' = m3u \o EntryLines(i, result[ch].title, active_stream)
            /\ UNCHANGED out
    /\ i' = i + 1
    /\ ch' = ch + 1
    /\ si' = 1
    /\ active_stream' = <<>>
    /\ probes' = <<>>
    /\ UNCHANGED <<pc, exc, at, genres, itm, chnls, result, file, code, data,
                   net, probed, hits, inactive>>

\* lines 169-173 and the next pass's line 161
FinishChannel ==
    /\ pc = "m3u"
    /\ ch <= Len(result)
    /\ InnerLoopDone
    /\ IF active_stream = <<>>
       THEN /\ out' = Append(out, ChannelError(result[ch].title))
            /\ UNCHANGED <<m3u, i>>
       ELSE /\ m3u' = m3u \o EntryLines(i, result[ch].title, active_stream)
            /\ i' = i + 1
            /\ UNCHANGED out
    /\ ch' = ch + 1
    /\ si' = 1
    /\ active_stream' = <<>>
    /\ probes' = <<>>
    /\ UNCHANGED <<pc, exc, at, genres, itm, chnls, result, file, code, data,
                   net, probed, hits, inactive>>

\* line 174: m3u.close()
CloseM3u ==
    /\ pc = "m3u"
    /\ ch > Len(result)
    /\ file' = "closed"
    /\ NoCrash("done")
    /\ UNCHANGED <<genres, itm, chnls, result, m3u, i, ch, si, active_stream,
                   code, data, out, net, probes, probed, hits, inactive>>

Next ==
    \/ GetGenres
    \/ ChooseGenre
    \/ GetStations
    \/ ResolveStation
    \/ OpenM3u
    \/ ProbeStream
    \/ FinishChannel
    \/ CloseM3u

Spec == Init /\ [][Next]_vars

(* ----------------------- make_m3u on any channels ---------------------- *)
\* stream candidates as get_channel_streams leaves them
Candidates == {StripQuery(u) : u \in StreamUrls}

\* the channel records make_m3u can be handed: up to MaxChannels records,
\* titled by position, each with up to MaxStreams candidates
ChannelLists ==
    UNION {[1..k -> SeqsUpTo(Candidates, MaxStreams)] : k \in 0..MaxChannels}

Channels(lists) == [j \in DOMAIN lists |-> [title |-> j, stream |-> lists[j]]]

\* main is about to call make_m3u(itm['title'], channels)
InitM3u ==
    /\ pc = "resolve"
    /\ exc = "none"
    /\ at = "none"
    /\ genres = List(<<GenreEntry("/radio-top/rock")>>)
    /\ itm = GenreEntry("/radio-top/rock")
    /\ chnls = {}
    /\ \E lists \in ChannelLists : result = Channels(lists)
    /\ file = "none"
    /\ m3u = <<>>
    /\ i = 0
    /\ ch = 0
    /\ si = 0
    /\ active_stream = <<>>
    /\ code = HTTP_OK
    /\ data = "body"
    /\ out = <<>>
    /\ net = [ep |-> "api", kind |-> "response", status |-> HTTP_OK, read |-> "ok",
              bk |-> "jsonobject"]
    /\ probes = <<>>
    /\ probed = {}
    /\ hits = {}
    /\ inactive = {}

NextM3u ==
    \/ OpenM3u
    \/ ProbeStream
    \/ FinishChannel
    \/ CloseM3u

SpecM3u == InitM3u /\ [][NextM3u]_vars

(* ======================= properties of make_m3u ======================== *)
Range(f) == {f[j] : j \in DOMAIN f}

\* make_m3u is inside `for val in channels`, val = result[ch]
InChannel == pc \in {"m3u", "crashed"} /\ file # "none" /\ ch \in 1..Len(result)

\* the channels whose pass of the outer loop is over
Processed == IF file = "none" THEN 0 ELSE ch - 1

\* the #EXTINF/URL pairs of the file, as (idx, title, url)
Pairs ==
    [j \in 1..((Len(m3u) - 1) \div 2) |->
        [idx |-> m3u[2 * j].idx, title |-> m3u[2 * j].title, url |-> m3u[2 * j + 1].url]]

\* C1: the active stream is a candidate of the channel, it is the candidate
\* of the last probe issued, that probe returned 200 and no probe before it
\* did; probes go down the list, and no probe is issued after one returned
\* 200; every URL written to the file is a candidate of its channel.
C1_FirstSuccessfulCandidate ==
    /\ \A j \in 1..(Len(probes) - 1) :
          /\ probes[j].code # HTTP_OK
          /\ probes[j].pos < probes[j + 1].pos
    /\ InChannel =>
          /\ \A j \in DOMAIN probes : probes[j].pos \in DOMAIN result[ch].stream
          /\ active_stream # <<>> =>
                /\ probes # <<>>
                /\ probes[Len(probes)].code = HTTP_OK
                /\ active_stream = result[ch].stream[probes[Len(probes)].pos]
                /\ active_stream \in Range(result[ch].stream)
          /\ active_stream = <<>> => \A j \in DOMAIN probes : probes[j].code # HTTP_OK
    /\ \A j \in DOMAIN Pairs :
          \E c \in 1..Processed :
              /\ result[c].title = Pairs[j].title
              /\ Pairs[j].url \in Range(result[c].stream)

\* the spec's own case: three candidates, the first probe fails, the second
\* returns 200 and is selected, the third is left unprobed
C1_Witness ==
    /\ InChannel
    /\ pc = "m3u"
    /\ Len(result[ch].stream) = 3
    /\ Len(probes) = 2
    /\ probes[1].pos = 1 /\ probes[1].code # HTTP_OK
    /\ probes[2].pos = 2 /\ probes[2].code = HTTP_OK
    /\ active_stream = result[ch].stream[2]
    /\ InnerLoopDone

\* the titles of the processed channels a probe of which returned 200, in
\* input order
RECURSIVE ValidatedTitles(_)
ValidatedTitles(n) ==
    IF n = 0 THEN <<>>
    ELSE ValidatedTitles(n - 1) \o (IF n \in hits THEN <<result[n].title>> ELSE <<>>)

\* C4: the file is one #EXTM3U line followed by one #EXTINF/URL pair for
\* each processed channel that had a probe return 200, in input order, with
\* indices 0..k-1; when make_m3u has returned, every channel is processed.
C4_HeaderAndGapFreeIndices ==
    file # "none" =>
        LET k == Len(ValidatedTitles(Processed))
        IN /\ Len(m3u) = 1 + 2 * k
           /\ m3u[1] = HeaderLine
           /\ i = k
           /\ \A j \in 1..k :
                 /\ m3u[2 * j] = ExtInfLine(j - 1, ValidatedTitles(Processed)[j])
                 /\ m3u[2 * j + 1].tag = "url"
                 /\ m3u[2 * j + 1].url # <<>>
           /\ pc = "done" => Processed = Len(result) /\ file = "closed"

\* make_m3u returned after dropping the first channel and writing the second
\* one, which got index 0
C4_Witness ==
    /\ pc = "done"
    /\ Len(result) >= 2
    /\ 1 \notin hits
    /\ 2 \in hits
    /\ Len(m3u) >= 3
    /\ m3u[2] = ExtInfLine(0, result[2].title)

\* every candidate of val has had its turn and none of the probes succeeded
AllCandidatesFailed ==
    /\ InChannel
    /\ si > Len(result[ch].stream)
    /\ \A j \in DOMAIN probes : probes[j].code # HTTP_OK

\* C5: a channel all of whose candidates fail does not stop the run, and
\* once its pass is over it has no entry in the file and its title is reported.
C5_UnreachableChannelNeverStopsRun ==
    /\ AllCandidatesFailed => pc # "crashed"
    /\ \A c \in 1..Processed :
          c \notin hits =>
              /\ \A j \in DOMAIN Pairs : Pairs[j].title # result[c].title
              /\ ChannelError(result[c].title) \in Range(out)

(* ======================== properties of get_page ======================= *)
\* the last call ended before any HTTP status was obtained
Unreachable == net.kind \in {"URLError", "ValueError"}

\* the last call timed out after the request was sent
TimedOut == net.kind = "Timeout" \/ (net.kind = "response" /\ net.read = "timeout")

\* every status code an HTTP response can carry
RealHttpCodes == 100..599

\* C6 (as stated): the status of an unreachable result is no status code an
\* HTTP response can carry.
C6_SentinelIsNoHttpStatus == Unreachable => code \notin RealHttpCodes

\* C6 (amended): the status of an unreachable result is 404, which is not the
\* success status; the error description names the failure.
C6_SentinelIsNotFound ==
    Unreachable =>
        /\ code = DEFAULT_CODE
        /\ code # HTTP_OK
        /\ data \in {"URL Error", "Value Error"}

C6_Witness == Unreachable /\ net.ep = "stream" /\ code = 404 /\ pc = "m3u"

\* C7: no exception leaves get_page, and a call that timed out is returned
\* as an unreachable result.
C7_TransportNeverRaises ==
    /\ exc # "TimeoutError"
    /\ TimedOut => pc # "crashed" /\ code = DEFAULT_CODE

(* ==================== properties of the station loop =================== *)
\* get_page returned a (code, data) for the last metadata call
ApiReturned == net.ep = "api" /\ ~TimedOut

\* C2: a metadata answer with status 200 and a body that is not JSON is
\* reported and skipped; the run goes on.
C2_MalformedResponseIsSkipped ==
    (ApiReturned /\ net.kind = "response" /\ net.status = HTTP_OK
        /\ net.read = "ok" /\ net.bk = "text")
    => pc # "crashed" /\ out # <<>>

\* C3: a metadata call that returns a status other than 200 is reported and
\* skipped; the run goes on.
C3_ApiUnavailableIsSkipped ==
    (ApiReturned /\ code # HTTP_OK) => pc # "crashed" /\ out # <<>>

\* the titles of the channel records built
Titles == {result[c].title : c \in DOMAIN result}

C8_Excluded ==
    \A n \in inactive :
        /\ n \notin Titles
        /\ n \notin probed
        /\ \A j \in DOMAIN m3u : m3u[j].title # n

C9_ParseEmptyIsReported ==
    (pc \in {"returned", "crashed"} /\ net.ep = "genres" /\ ~TimedOut
        /\ code = HTTP_OK /\ Falsy(genres))
    => GROUPS_ERROR \in Range(out)

\* C10: a probe is issued, and the file opened, only when every station's
\* lookup is over; a run that faults before that has no file.
C10_TwoPhases ==
    /\ (file # "none" \/ probed # {} \/ net.ep = "stream" \/ m3u # <<>>) =>
          /\ chnls = {}
          /\ pc \in {"m3u", "done", "crashed"}
          /\ pc = "crashed" => at = "m3u"
    /\ (pc = "crashed" /\ at # "m3u") =>
          /\ file = "none"
          /\ m3u = <<>>
          /\ probed = {}

\* the lookup of the second station faulted after the first one had yielded
\* a channel record: no file
C10_Witness ==
    /\ pc = "crashed"
    /\ at = "resolve"
    /\ Len(result) = 1
    /\ file = "none"

====
